---- MODULE Spec2Model ----
(***************************************************************************)
(* Model of qrcode/draw.py: the construction of a QR symbol's module       *)
(* matrix by draw(binary_string, version, error_correction_level).         *)
(*                                                                         *)
(* A CoordinateValueMap (a Python dict keyed by (row, col)) is a function  *)
(* whose domain is a set of <<row, col>> tuples.  The numpy grid is a      *)
(* function on Cells(size).  A Python str of '0'/'1' characters is a       *)
(* sequence of the strings "0" and "1".                                    *)
(***************************************************************************)
EXTENDS Integers, Sequences, FiniteSets, TLC

\* ------------------------------------------------------------------ bounds
\* The versions handed to draw are 1..MaxVersion.
MaxVersion == 7
\* Length of the short payload (shorter than any version's data region).
ShortLen == 5
\* Length of the middle payload (the 26 codewords of a version 1 symbol).
MidLen == 208
\* Extra bits of the long payload beyond the number of cells of the grid.
ExtraLen == 3
\* Number of payload bit patterns.
PatternCount == 2
\* A for loop over a long list is evaluated in runs of LoopChunk iterations.
LoopChunk == 64

\* ------------------------------------------------------- module constants
WHITE == 0
BLACK == 1
DEFAULT_VALUE == -1
DUMMY_VALUE == -2

\* ------------------------------------------------------------ Python glue
\* range(start, stop, 2) for start <= stop, as a set.
RangeStep2(start, stop) == {x \in start..(stop - 1) : (x - start) % 2 = 0}

\* {**a, **b}: the later map wins on a shared key.
Merge(a, b) ==
    [k \in (DOMAIN a) \cup (DOMAIN b) |-> IF k \in DOMAIN b THEN b[k] ELSE a[k]]

\* numpy index of axis length n: a negative index counts from the end.
NpIndex(i, n) == IF i < 0 THEN i + n ELSE i

\* The cell of the array that grid[i][j] addresses for coord = (i, j).
CellOf(coord, size) == <<NpIndex(coord[1], size), NpIndex(coord[2], size)>>

\* int(value) of a one-character string of a binary digit.
IntOf(value) == IF value = "1" THEN 1 ELSE 0

\* str(bit) of a binary digit.
StrOf(bit) == IF bit = 1 THEN "1" ELSE "0"

\* a ^ b on bits (a Python bool counts as 0/1).
Xor(a, b) == IF a = b THEN 0 ELSE 1

Cells(size) == (0..(size - 1)) \X (0..(size - 1))

\* ---------------------------------------------------------- collaborators
\* qrcode.utils.convert_to_grid_size
convert_to_grid_size(version) == 4 * version + 17

\* qrcode.utils.get_masks: the eight mask predicates, by mask reference.
MaskFn(ref, i, j) ==
    LET hit == CASE ref = 0 -> (i + j) % 2 = 0
                 [] ref = 1 -> i % 2 = 0
                 [] ref = 2 -> j % 3 = 0
                 [] ref = 3 -> (i + j) % 3 = 0
                 [] ref = 4 -> ((i \div 2) + (j \div 3)) % 2 = 0
                 [] ref = 5 -> ((i * j) % 2) + ((i * j) % 3) = 0
                 [] ref = 6 -> (((i * j) % 2) + ((i * j) % 3)) % 2 = 0
                 [] ref = 7 -> (((i + j) % 2) + ((i * j) % 3)) % 2 = 0
    IN  IF hit THEN 1 ELSE 0

\* qrcode.utils.get_mask_penalty_points: the points the scorer gives the grid
\* masked with each mask reference (the fixed scores 5,5,3,3,9,1,1,1).
get_mask_penalty_points(ref) == <<5, 5, 3, 3, 9, 1, 1, 1>>[ref + 1]

\* ------------------------------------------------------ get_timing_pattern
get_timing_pattern(grid_size) ==
    LET fixed_row == 6
        fixed_col == 6
        timing_pattern_row_black ==
            [k \in {<<fixed_row, x>> : x \in RangeStep2(0, grid_size)} |-> BLACK]
        timing_pattern_row_white ==
            [k \in {<<fixed_row, x>> : x \in RangeStep2(1, grid_size)} |-> WHITE]
        timing_pattern_col_black ==
            [k \in {<<x, fixed_col>> : x \in RangeStep2(0, grid_size)} |-> BLACK]
        timing_pattern_col_white ==
            [k \in {<<x, fixed_col>> : x \in RangeStep2(1, grid_size)} |-> WHITE]
    IN  Merge(Merge(Merge(timing_pattern_row_black, timing_pattern_row_white),
                    timing_pattern_col_black), timing_pattern_col_white)

create_row(fixed_row_index, col_start, col_end, value) ==
    [k \in {<<fixed_row_index, col>> : col \in col_start..(col_end - 1)} |-> value]

create_col(fixed_col_index, row_start, row_end, value) ==
    [k \in {<<row, fixed_col_index>> : row \in row_start..(row_end - 1)} |-> value]

\* ------------------------------------------------ finder_pattern_generator
FinderIsBlack(r, c) ==
    \/ (0 <= r /\ r <= 6 /\ c \in {0, 6})
    \/ (0 <= c /\ c <= 6 /\ r \in {0, 6})
    \/ (2 <= r /\ r <= 4 /\ 2 <= c /\ c <= 4)

finder_pattern_generator(row, col, grid_size) ==
    LET rs == {r \in -1..7 : ~(row + r <= -1 \/ grid_size <= row + r)}
        cs == {c \in -1..7 : ~(col + c <= -1 \/ grid_size <= col + c)}
    IN  [k \in {<<row + r, col + c>> : r \in rs, c \in cs} |->
            IF FinderIsBlack(k[1] - row, k[2] - col) THEN BLACK ELSE WHITE]

get_finder_patterns(grid_size) ==
    LET top_left == finder_pattern_generator(0, 0, grid_size)
        bottom_left == finder_pattern_generator(grid_size - 7, 0, grid_size)
        top_right == finder_pattern_generator(0, grid_size - 7, grid_size)
    IN  Merge(Merge(top_left, bottom_left), top_right)

\* --------------------------------------------------- get_seperator_pattern
get_seperator_pattern(grid_size) ==
    LET length == 8
        length_index == length - 1
        top_left_row == create_row(length_index, 0, length, WHITE)
        top_left_col == create_col(length_index, 0, length, WHITE)
        top_right_row == create_row(length_index, grid_size - length, grid_size, WHITE)
        top_right_col == create_col(grid_size - length, 0, length, WHITE)
        bottom_right_row == create_row(grid_size - length, 0, length, WHITE)
        bottom_right_col == create_col(length_index, grid_size - length, grid_size, WHITE)
    IN  Merge(Merge(Merge(Merge(Merge(top_left_row, top_left_col), top_right_row),
                          top_right_col), bottom_right_row), bottom_right_col)

\* -------------------------------------------- get_dummy_format_information
\* Faulty variant: the dark module is not set.
get_dummy_format_information_NoDarkModule(grid_size) ==
    LET in_row == {<<8, col>> : col \in {c \in 0..(grid_size - 1) :
                                            (c <= 7) \/ (c >= grid_size - 8)}}
        in_col == {<<row, 8>> : row \in {r \in 0..(grid_size - 1) :
                                            r <= 8 \/ r >= grid_size - 8}}
    IN  [k \in in_row \cup in_col |-> DUMMY_VALUE]

get_dummy_format_information(grid_size) ==
    LET in_row == {<<8, col>> : col \in {c \in 0..(grid_size - 1) :
                                            (c <= 7) \/ (c >= grid_size - 8)}}
        in_col == {<<row, 8>> : row \in {r \in 0..(grid_size - 1) :
                                            r <= 8 \/ r >= grid_size - 8}}
        reserved == [k \in in_row \cup in_col |-> DUMMY_VALUE]
    IN  Merge(reserved, [k \in {<<grid_size - 8, 8>>} |-> BLACK])

\* ------------------------------------------------------------ override_grid
\* grid[i][j] = value for every (i, j) of the map; a negative index addresses
\* the cell counted from the end of its axis.
OverrideKeys(cell, size, keys) ==
    {k \in {<<cell[1] - dr, cell[2] - dc>> : dr \in {0, size}, dc \in {0, size}} :
        k \in keys}

override_grid(grid, size, indexes) ==
    LET keys == DOMAIN indexes
    IN  [cell \in Cells(size) |->
            LET hit == OverrideKeys(cell, size, keys)
            IN  IF hit = {} THEN grid[cell] ELSE indexes[CHOOSE k \in hit : TRUE]]

\* The values a map of '0'/'1' characters leaves in the integer array: the
\* assignment grid[i][j] = value converts the character with int().
AsArrayValues(indexes) == [k \in DOMAIN indexes |-> IntOf(indexes[k])]

\* ------------------------------------------------------------ add_quiet_zone
add_quiet_zone(grid, size) ==
    [cell \in Cells(size + 2) |->
        IF cell[1] \in 1..size /\ cell[2] \in 1..size
        THEN grid[<<cell[1] - 1, cell[2] - 1>>]
        ELSE 0]

\* --------------------------------------------------------- iterate_over_grid
\* The columns of range(grid_size - 1, 0, -2), in order.
SweepColumns(grid_size) ==
    [p \in 1..(grid_size \div 2) |-> grid_size - 1 - 2 * (p - 1)]

\* Faulty variant: the timing column is not skipped.
SkipTimingColumn_NoSkip(column) == column

\* "if column <= 6: column -= 1"
SkipTimingColumn(column) == IF column <= 6 THEN column - 1 ELSE column

\* The row a sweep starts at.
StartRow(up, grid_size) == IF up THEN 20 ELSE 0

iterate_over_grid(grid_size) ==
    LET columns == SweepColumns(grid_size)
        per_sweep == 2 * grid_size
    IN  [n \in 1..(Len(columns) * per_sweep) |->
            LET p == ((n - 1) \div per_sweep) + 1
                step == ((n - 1) % per_sweep) \div 2
                side == (n - 1) % 2
                up == (p % 2 = 1)
                column == SkipTimingColumn(columns[p])
                row == IF up THEN StartRow(up, grid_size) - step
                             ELSE StartRow(up, grid_size) + step
            IN  <<row, column - side>>]

\* ---------------------------------------------------- get_codeword_placement
\* Faulty variant: a cell that is not Unset still takes a bit off the payload.
PlacementStep_ConsumesOnSkip(binary_str, grid, size, coord, acc) ==
    IF acc[3] THEN acc
    ELSE IF acc[2] >= Len(binary_str) THEN <<acc[1], acc[2], TRUE>>
    ELSE IF grid[CellOf(coord, size)] = DEFAULT_VALUE
         THEN <<(coord :> binary_str[acc[2] + 1]) @@ acc[1], acc[2] + 1, FALSE>>
         ELSE <<acc[1], acc[2] + 1, FALSE>>

\* Faulty variant: every cell of the walk takes a bit, Unset or not.
PlacementStep_IgnoresUnset(binary_str, grid, size, coord, acc) ==
    IF acc[3] THEN acc
    ELSE IF acc[2] >= Len(binary_str) THEN <<acc[1], acc[2], TRUE>>
    ELSE <<(coord :> binary_str[acc[2] + 1]) @@ acc[1], acc[2] + 1, FALSE>>

\* One iteration of "for row, col in grid_iterator".  acc is
\* <<result, number of characters taken off binary_str, broken>>.
PlacementStep(binary_str, grid, size, coord, acc) ==
    IF acc[3] THEN acc
    ELSE IF acc[2] >= Len(binary_str) THEN <<acc[1], acc[2], TRUE>>
    ELSE IF grid[CellOf(coord, size)] = DEFAULT_VALUE
         THEN <<(coord :> binary_str[acc[2] + 1]) @@ acc[1], acc[2] + 1, FALSE>>
         ELSE acc

\* The iterations n..last of the loop.  (The test next[2] >= 0 is always
\* true: it has the accumulator evaluated before the next iteration.)
RECURSIVE PlacementRun(_, _, _, _, _, _, _)
PlacementRun(binary_str, grid, size, grid_iterator, n, last, acc) ==
    IF n > last THEN acc
    ELSE LET next == PlacementStep(binary_str, grid, size, grid_iterator[n], acc)
         IN  IF next[2] >= 0
             THEN PlacementRun(binary_str, grid, size, grid_iterator, n + 1, last, next)
             ELSE next

\* "for row, col in grid_iterator", from iteration n on.
RECURSIVE PlacementLoop(_, _, _, _, _, _)
PlacementLoop(binary_str, grid, size, grid_iterator, n, acc) ==
    IF n > Len(grid_iterator) THEN acc
    ELSE LET last == IF n + LoopChunk - 1 > Len(grid_iterator)
                     THEN Len(grid_iterator) ELSE n + LoopChunk - 1
             next == PlacementRun(binary_str, grid, size, grid_iterator, n, last, acc)
         IN  IF next[2] >= 0
             THEN PlacementLoop(binary_str, grid, size, grid_iterator, last + 1, next)
             ELSE next

get_codeword_placement(binary_str, grid, size, grid_iterator) ==
    PlacementLoop(binary_str, grid, size, grid_iterator, 1, <<<<>>, 0, FALSE>>)[1]

\* ----------------------------------------------------------------- apply_mask
apply_mask(ref, data) ==
    [k \in DOMAIN data |-> Xor(MaskFn(ref, k[1], k[2]), IntOf(data[k]))]

\* --------------------------------------------------- get_version_information
\* Faulty variant: the supported range is one version too wide.
VersionInformationRaises_OffByOne(version) == ~(version <= 7)

\* TRUE when get_version_information raises NotImplementedError.
VersionInformationRaises(version) == ~(version <= 6)

get_version_information(version) == <<>>

\* ------------------------------------------------------ get_format_information
\* Bits of a natural number, most significant first, at least width digits
\* (the format specification "0{width}b").
RECURSIVE FormatBinary(_, _)
FormatBinary(n, width) ==
    IF n < 2 /\ width <= 1 THEN <<StrOf(n)>>
    ELSE Append(FormatBinary(n \div 2, width - 1), StrOf(n % 2))

\* int(digits, 2)
RECURSIVE ParseBinary(_)
ParseBinary(digits) ==
    IF Len(digits) = 0 THEN 0
    ELSE 2 * ParseBinary(SubSeq(digits, 1, Len(digits) - 1)) + IntOf(digits[Len(digits)])

\* a ^ b and a | b on natural numbers.
RECURSIVE BitXor(_, _)
BitXor(a, b) ==
    IF a = 0 THEN b ELSE IF b = 0 THEN a
    ELSE 2 * BitXor(a \div 2, b \div 2) + Xor(a % 2, b % 2)

RECURSIVE BitOr(_, _)
BitOr(a, b) ==
    IF a = 0 THEN b ELSE IF b = 0 THEN a
    ELSE 2 * BitOr(a \div 2, b \div 2) + (IF a % 2 = 1 \/ b % 2 = 1 THEN 1 ELSE 0)

\* qrcode.reedsolomon.encode over GF(2): the data bits followed by the ecclen
\* remainder bits of data * x^ecclen divided by genpoly.
RECURSIVE RsDivide(_, _, _, _)
RsDivide(msg, genpoly, i, ndata) ==
    IF i > ndata THEN msg
    ELSE IF msg[i] = 0 THEN RsDivide(msg, genpoly, i + 1, ndata)
    ELSE RsDivide([k \in 1..Len(msg) |->
                       IF k >= i /\ k < i + Len(genpoly)
                       THEN Xor(msg[k], genpoly[k - i + 1]) ELSE msg[k]],
                  genpoly, i + 1, ndata)

rs_encode(data_list, ecclen, genpoly) ==
    LET msg == data_list \o [k \in 1..ecclen |-> 0]
        rem == RsDivide(msg, genpoly, 1, Len(data_list))
    IN  data_list \o SubSeq(rem, Len(data_list) + 1, Len(msg))

ecl_binary_indicator_map(ecl) ==
    CASE ecl = "L" -> 1 [] ecl = "M" -> 0 [] ecl = "Q" -> 3 [] ecl = "H" -> 2

get_format_information(ecl, mask_reference) ==
    LET genpoly == <<1, 0, 1, 0, 0, 1, 1, 0, 1, 1, 1>>
        mask == 21522
        ecl_binary_indicator == ecl_binary_indicator_map(ecl)
        data == BitOr(ecl_binary_indicator * 8, mask_reference)
        data_binary_str == FormatBinary(data, 5)
        data_list == [k \in 1..Len(data_binary_str) |-> IntOf(data_binary_str[k])]
        encoded == rs_encode(data_list, 10, genpoly)
        format_info == ParseBinary([k \in 1..Len(encoded) |-> StrOf(encoded[k])])
    IN  BitXor(format_info, mask)

\* ----------------------------------------------------------------------- draw

VARIABLES
    version,                 \* argument of draw
    binary_string,           \* argument of draw
    error_correction_level,  \* argument of draw
    pc,                      \* the statement draw is at
    grid_size,
    grid,                    \* <<>> until np.full creates it; masked_grid is this array
    grid_iterator,
    codeword_placement,
    mask_reference,          \* the loop variable of "for mask_reference, mask"
    masked_codewords,
    format_information,
    best_mask_ref,
    lowest_penalty_points

vars == <<version, binary_string, error_correction_level, pc,
          grid_size, grid, grid_iterator, codeword_placement, mask_reference,
          masked_codewords, format_information, best_mask_ref,
          lowest_penalty_points>>

args == <<version, binary_string, error_correction_level>>

Versions == 1..MaxVersion

ECLs == {"L", "M", "Q", "H"}

\* The payloads handed to draw: pattern p repeats p zeros and p ones.
Payload(len, p) == [k \in 1..len |-> StrOf(((k - 1) \div p) % 2)]

PayloadLens(v) == {ShortLen, MidLen, convert_to_grid_size(v) * convert_to_grid_size(v) + ExtraLen}

Init ==
    /\ version \in Versions
    /\ \E len \in PayloadLens(version), p \in 1..PatternCount :
           binary_string = Payload(len, p)
    /\ error_correction_level \in ECLs
    /\ pc = "start"
    /\ grid_size = 0
    /\ grid = <<>>
    /\ grid_iterator = <<>>
    /\ codeword_placement = <<>>
    /\ mask_reference = 0
    /\ masked_codewords = <<>>
    /\ format_information = 0
    /\ best_mask_ref = 0
    /\ lowest_penalty_points = 0

\* Lines 240-249: grid size, version information (which raises for an
\* unsupported version), the pattern maps, and the all-Unset array.
Start ==
    /\ pc = "start"
    /\ grid_size' = convert_to_grid_size(version)
    /\ IF VersionInformationRaises(version)
       THEN /\ pc' = "raised"
            /\ grid' = grid
       ELSE /\ pc' = "dummy_format_information"
            /\ grid' = [cell \in Cells(grid_size') |-> DEFAULT_VALUE]
    /\ UNCHANGED <<args, grid_iterator, codeword_placement, mask_reference,
                   masked_codewords, format_information, best_mask_ref,
                   lowest_penalty_points>>

\* One "grid = override_grid(grid, <pattern>)" of lines 251-255.
Overlay(at, indexes, next) ==
    /\ pc = at
    /\ grid' = override_grid(grid, grid_size, indexes)
    /\ pc' = next
    /\ UNCHANGED <<args, grid_size, grid_iterator, codeword_placement,
                   mask_reference, masked_codewords, format_information,
                   best_mask_ref, lowest_penalty_points>>

OverlayDummyFormatInformation ==
    Overlay("dummy_format_information", get_dummy_format_information(grid_size),
            "timing_pattern")

OverlayTimingPattern ==
    Overlay("timing_pattern", get_timing_pattern(grid_size), "finder_patterns")

OverlayFinderPatterns ==
    Overlay("finder_patterns", get_finder_patterns(grid_size), "seperator_pattern")

OverlaySeperatorPattern ==
    Overlay("seperator_pattern", get_seperator_pattern(grid_size),
            "version_information")

OverlayVersionInformation ==
    Overlay("version_information", get_version_information(version), "placement")

\* Lines 257-262: the walk, the placement of the payload, its overlay, and
\* the start of the mask loop.
PlaceCodewords ==
    /\ pc = "placement"
    /\ grid_iterator' = iterate_over_grid(grid_size)
    /\ codeword_placement' =
           get_codeword_placement(binary_string, grid, grid_size, grid_iterator')
    /\ grid' = override_grid(grid, grid_size, AsArrayValues(codeword_placement'))
    /\ best_mask_ref' = 0
    /\ lowest_penalty_points' = 100000
    /\ mask_reference' = 0
    /\ pc' = "masks"
    /\ UNCHANGED <<args, grid_size, masked_codewords, format_information>>

\* The part of the loop body that runs (lines 264-267).
MaskBody(ref) ==
    /\ masked_codewords' = apply_mask(ref, codeword_placement)
    /\ grid' = override_grid(grid, grid_size, masked_codewords')
    /\ format_information' = get_format_information(error_correction_level, ref)

\* Lines 272-274, the statements after "continue": the scorer is asked and a
\* strictly lower score replaces the running minimum.
ScoreCandidate(ref) ==
    LET points == get_mask_penalty_points(ref)
    IN  IF points < lowest_penalty_points
        THEN /\ best_mask_ref' = ref
             /\ lowest_penalty_points' = points
        ELSE UNCHANGED <<best_mask_ref, lowest_penalty_points>>

\* Lines 269-274: "continue" ends the iteration, so ScoreCandidate is never
\* reached and the running minimum keeps its initial value.
MaskScore(ref) ==
    UNCHANGED <<best_mask_ref, lowest_penalty_points>>

\* One iteration of "for mask_reference, mask in enumerate(masks)".
MaskCandidate ==
    /\ pc = "masks"
    /\ mask_reference < 8
    /\ MaskBody(mask_reference)
    /\ MaskScore(mask_reference)
    /\ mask_reference' = mask_reference + 1
    /\ UNCHANGED <<args, pc, grid_size, grid_iterator, codeword_placement>>

\* Faulty variant: the winning mask is applied to the bits the array holds, which
\* the last candidate has masked already.
Commit_Compounds ==
    /\ pc = "masks"
    /\ mask_reference = 8
    /\ masked_codewords' =
           [k \in DOMAIN codeword_placement |->
               Xor(MaskFn(best_mask_ref, k[1], k[2]), grid[CellOf(k, grid_size)])]
    /\ grid' = override_grid(grid, grid_size, masked_codewords')
    /\ pc' = "quiet_zone"
    /\ UNCHANGED <<args, grid_size, grid_iterator, codeword_placement,
                   mask_reference, format_information, best_mask_ref,
                   lowest_penalty_points>>

\* Lines 276-279: the winning mask is applied to the placement again and
\* overlaid.
Commit ==
    /\ pc = "masks"
    /\ mask_reference = 8
    /\ masked_codewords' = apply_mask(best_mask_ref, codeword_placement)
    /\ grid' = override_grid(grid, grid_size, masked_codewords')
    /\ pc' = "quiet_zone"
    /\ UNCHANGED <<args, grid_size, grid_iterator, codeword_placement,
                   mask_reference, format_information, best_mask_ref,
                   lowest_penalty_points>>

\* Line 281.
QuietZone ==
    /\ pc = "quiet_zone"
    /\ grid' = add_quiet_zone(grid, grid_size)
    /\ pc' = "done"
    /\ UNCHANGED <<args, grid_size, grid_iterator, codeword_placement,
                   mask_reference, masked_codewords, format_information,
                   best_mask_ref, lowest_penalty_points>>

Next ==
    \/ Start
    \/ OverlayDummyFormatInformation
    \/ OverlayTimingPattern
    \/ OverlayFinderPatterns
    \/ OverlaySeperatorPattern
    \/ OverlayVersionInformation
    \/ PlaceCodewords
    \/ MaskCandidate
    \/ Commit
    \/ QuietZone

Spec == Init /\ [][Next]_vars

\* ------------------------------------------------------------ claim helpers
\* Lines 249-255: the array after the fixed-pattern passes.
FixedGrid(size, v) ==
    override_grid(
        override_grid(
            override_grid(
                override_grid(
                    override_grid([cell \in Cells(size) |-> DEFAULT_VALUE], size,
                                  get_dummy_format_information(size)),
                    size, get_timing_pattern(size)),
                size, get_finder_patterns(size)),
            size, get_seperator_pattern(size)),
        size, get_version_information(v))

Min(a, b) == IF a < b THEN a ELSE b

\* The first mask reference, in the order 0..7, whose score is the minimum.
FirstMinimumMask ==
    CHOOSE ref \in 0..7 :
        /\ \A other \in 0..7 :
               get_mask_penalty_points(ref) <= get_mask_penalty_points(other)
        /\ \A earlier \in 0..(ref - 1) :
               get_mask_penalty_points(earlier) > get_mask_penalty_points(ref)

\* The cells the format-information reservation covers in a 21x21 grid.
ReservedCellsV1 ==
    {<<8, c>> : c \in (0..7) \cup (13..20)} \cup {<<r, 8>> : r \in (0..8) \cup (13..20)}

\* draw has just placed the payload and is about to try the first mask.
JustPlaced == pc = "masks" /\ mask_reference = 0

\* ------------------------------------------------------------------- claims

\* C1: the mask draw commits is the first mask reference, in the order 0..7,
\* whose penalty score is the minimum of the eight scores; with the scores
\* 5,5,3,3,9,1,1,1 that is mask 5.
C1_CommitsFirstMinimumMask ==
    pc \in {"quiet_zone", "done"} =>
        /\ best_mask_ref = FirstMinimumMask
        /\ best_mask_ref = 5
        /\ masked_codewords = apply_mask(FirstMinimumMask, codeword_placement)

C3_ReservationEverywhere ==
    (version = 1 /\ pc = "placement") =>
        \A cell \in ReservedCellsV1 : grid[cell] = DUMMY_VALUE

\* C3 amended: for version 1, after the fixed-pattern passes every cell the
\* reservation covers holds ReservedPlaceholder (-2), except (6, 8) and
\* (8, 6), which hold the timing pattern's Black, and (13, 8), which holds the
\* dark module's Black.
C3_ReservationExceptTimingAndDarkModule ==
    (version = 1 /\ pc = "placement") =>
        \A cell \in ReservedCellsV1 :
            grid[cell] = IF cell \in {<<6, 8>>, <<8, 6>>, <<13, 8>>}
                         THEN BLACK ELSE DUMMY_VALUE

C3_Witness ==
    /\ version = 1
    /\ pc = "placement"
    /\ grid[<<8, 0>>] = DUMMY_VALUE
    /\ grid[<<0, 0>>] = BLACK

\* C4: when draw completes for a version in 1..6 with a payload at least as
\* long as the number of Unset cells left by the fixed patterns, the final
\* matrix is (grid_size+2) x (grid_size+2) and every cell is White or Black.
C4_FinalMatrixIsBlackAndWhite ==
    (/\ pc = "done"
     /\ version \in 1..6
     /\ Len(binary_string) >=
            Cardinality({cell \in Cells(grid_size) :
                            FixedGrid(grid_size, version)[cell] = DEFAULT_VALUE}))
    => /\ DOMAIN grid = Cells(grid_size + 2)
       /\ \A cell \in Cells(grid_size + 2) : grid[cell] \in {WHITE, BLACK}

\* C5: get_format_information(ECL.M, 5) is 5340, binary 001010011011100.
C5_FormatInformationM5 ==
    (pc = "masks" /\ error_correction_level = "M" /\ mask_reference = 6) =>
        format_information = 5340

\* C6: get_version_information gives the empty overlay for a version up to 6
\* and raises for a version from 7 on; draw with a version from 7 on stops
\* there, before any matrix has been created.
C6_UnsupportedVersionRaises ==
    /\ version >= 7 => (pc \in {"start", "raised"} /\ grid = <<>>)
    /\ version <= 6 => pc # "raised"
    /\ version <= 6 => DOMAIN get_version_information(version) = {}

C6_Witness == version >= 7 /\ pc = "raised" /\ grid = <<>>

\* C7: for every version 1..6 every coordinate of the walk lies inside the
\* grid, an up sweep visits the rows grid_size-1 down to 0 and a down sweep
\* the rows 0 up to grid_size-1.
C7_WalkStaysInsideGrid ==
    (JustPlaced /\ version \in 1..6) =>
        \A n \in 1..Len(grid_iterator) :
            LET sweep == (n - 1) \div (2 * grid_size)
                step == ((n - 1) % (2 * grid_size)) \div 2
                row == grid_iterator[n][1]
                col == grid_iterator[n][2]
            IN  /\ 0 <= row /\ row < grid_size
                /\ 0 <= col /\ col < grid_size
                /\ row = IF sweep % 2 = 0 THEN grid_size - 1 - step ELSE step

\* C8: the k-th payload bit goes to the k-th Unset cell of the walk, a cell
\* that is not Unset takes no bit and is not in the result, and the number of
\* coordinates placed is the smaller of the payload's length and the number
\* of Unset cells in the walk.
C8_PlacementFollowsWalk ==
    JustPlaced =>
        LET fixed == FixedGrid(grid_size, version)
            IsUnset(coord) == fixed[CellOf(coord, grid_size)] = DEFAULT_VALUE
            unset_walk == SelectSeq(grid_iterator, IsUnset)
            count == Min(Len(binary_string), Len(unset_walk))
        IN  /\ DOMAIN codeword_placement = {unset_walk[k] : k \in 1..count}
            /\ \A k \in 1..count : codeword_placement[unset_walk[k]] = binary_string[k]
            /\ Cardinality(DOMAIN codeword_placement) = count

C8_Witness ==
    /\ JustPlaced
    /\ Cardinality(DOMAIN codeword_placement) < Len(binary_string)
    /\ <<8, grid_size - 1>> \notin DOMAIN codeword_placement
    /\ <<9, grid_size - 1>> \in DOMAIN codeword_placement
    /\ <<7, grid_size - 1>> \notin DOMAIN codeword_placement

\* C9: after the loop and the commit every data-region coordinate holds the
\* winning mask's bit XOR the payload bit placed there, whatever candidates
\* were overlaid before; the quiet zone moves it one row and one column on.
C9_CommitMasksOriginalBits ==
    /\ pc = "quiet_zone" =>
           \A k \in DOMAIN codeword_placement :
               grid[CellOf(k, grid_size)] =
                   Xor(MaskFn(best_mask_ref, k[1], k[2]), IntOf(codeword_placement[k]))
    /\ pc = "done" =>
           \A k \in DOMAIN codeword_placement :
               grid[<<CellOf(k, grid_size)[1] + 1, CellOf(k, grid_size)[2] + 1>>] =
                   Xor(MaskFn(best_mask_ref, k[1], k[2]), IntOf(codeword_placement[k]))

C9_Witness ==
    /\ pc = "quiet_zone"
    /\ mask_reference = 8
    /\ Cardinality(DOMAIN codeword_placement) > ShortLen

\* C10: through data placement, the eight candidate overlays and the commit,
\* every cell that was not Unset after the fixed patterns keeps the value it
\* had then.
C10_FixedCellsKeepTheirValue ==
    pc \in {"masks", "quiet_zone"} =>
        LET fixed == FixedGrid(grid_size, version)
        IN  \A cell \in Cells(grid_size) :
                fixed[cell] # DEFAULT_VALUE => grid[cell] = fixed[cell]

C10_Witness ==
    /\ pc = "quiet_zone"
    /\ codeword_placement # <<>>
    /\ grid[<<8, 0>>] = DUMMY_VALUE
    /\ grid[<<6, 8>>] = BLACK

====
